---- MODULE Spec2Model ----
(***************************************************************************)
(* File-backed B-Trees (wfvining/btrees).  Two attempts live in the        *)
(* repository: src/btree1.rs (header + fixed slot, new/open/insert/        *)
(* search/lookup/delete) and src/btree.rs (the "second attempt": Storage   *)
(* trait, append-only Node::store/Node::load, BTree::new).                 *)
(*                                                                         *)
(* Files are byte sequences.  bincode encodes u64/usize/i64 as 8 bytes     *)
(* (little-endian, the fixed-width default), a Vec as its u64 length       *)
(* followed by its elements, an Option as a tag byte 0 (None) or 1 (Some)  *)
(* followed by the payload, a tuple/struct as its fields in order.         *)
(*                                                                         *)
(* Option<T> is modelled as a sequence: None is <<>>, Some(x) is <<x>>.    *)
(***************************************************************************)
EXTENDS Integers, Sequences, FiniteSets, TLC

VARIABLES
    file,      \* the one path of the file system: None, or Some(bytes)
    tree,      \* the live BTree handle: None, or Some(record)
    refmap,    \* history: the key -> value map the calls so far describe
    made,      \* history: None, or Some(<<k, node_length>>) of the create
    stored,    \* history of the node stores: what was stored where
    result     \* the last operation and what it returned

vars == <<file, tree, refmap, made, stored, result>>

-----------------------------------------------------------------------------
(* Bounds of the model *)

MaxKey == 6
MaxVal == 2
MaxK == 2
MaxSlot == 1
MaxStores == 3
MaxWrites == 2
MaxOff == 3
WalkFuel == 3

Keys == 1..MaxKey
Vals == 1..MaxVal
Degrees == 1..MaxK

-----------------------------------------------------------------------------
(* Option *)

None == <<>>
Some(x) == <<x>>
IsSome(o) == Len(o) = 1
IsNone(o) == Len(o) = 0

-----------------------------------------------------------------------------
(* bincode: fixed-width integers.  Values of the model stay below 2^24;    *)
(* a decoded value whose upper bytes are set (only read from misaligned    *)
(* bytes) is reported as BigU64.                                           *)

BigU64 == 256 * 65536

Pow256(i) == IF i = 0 THEN 1 ELSE IF i = 1 THEN 256 ELSE 65536

U64Bytes(v) == [i \in 1..8 |-> IF i <= 3 THEN (v \div Pow256(i - 1)) % 256 ELSE 0]

I64Bytes(v) ==
    IF v >= 0 THEN U64Bytes(v)
    ELSE [i \in 1..8 |-> IF i <= 3 THEN ((v + BigU64) \div Pow256(i - 1)) % 256
                         ELSE 255]

U64Val(b, p) ==
    IF \E i \in 3..7 : b[p + i] # 0 THEN BigU64
    ELSE b[p] + 256 * b[p + 1] + 65536 * b[p + 2]

I64Val(b, p) ==
    IF \A i \in 3..7 : b[p + i] = 0 THEN b[p] + 256 * b[p + 1] + 65536 * b[p + 2]
    ELSE IF \A i \in 3..7 : b[p + i] = 255
         THEN b[p] + 256 * b[p + 1] + 65536 * b[p + 2] - BigU64
    ELSE BigU64

RECURSIVE Concat(_)
Concat(ss) == IF Len(ss) = 0 THEN <<>> ELSE Head(ss) \o Concat(Tail(ss))

DeFail == [ok |-> FALSE, val |-> <<>>, pos |-> 0]

-----------------------------------------------------------------------------
(* std::fs::File as a byte sequence: seek(Start(offset)) + write_all /     *)
(* read_exact.  Offsets are 0-based, sequences 1-based.                    *)

Max(a, b) == IF a >= b THEN a ELSE b

\* write_all of no bytes writes nothing: the file does not grow
WriteAt(b, offset, data) ==
    IF Len(data) = 0 THEN b
    ELSE [i \in 1..Max(Len(b), offset + Len(data)) |->
             IF i > offset /\ i <= offset + Len(data) THEN data[i - offset]
             ELSE IF i <= Len(b) THEN b[i]
             ELSE 0]

\* read_exact into an empty buffer succeeds wherever the position is
ReadExact(b, offset, n) ==
    IF n = 0 \/ offset + n <= Len(b)
    THEN [ok |-> TRUE, bytes |-> [i \in 1..n |-> b[offset + i]]]
    ELSE [ok |-> FALSE, bytes |-> <<>>]

-----------------------------------------------------------------------------
(* src/btree1.rs: BTreeNode and its bincode form *)

BTreeNode_new(k, parent) ==
    [children |-> [i \in 1..(2 * k) |-> None],
     parent   |-> parent,
     data     |-> [i \in 1..(2 * k + 1) |-> None]]

\* children[0] is indexed without a check: an empty children vector panics.
is_leaf(node) ==
    IF Len(node.children) = 0 THEN "Panic"
    ELSE IF IsSome(node.children[1]) THEN "false" ELSE "true"

SerOptU64(o) == IF IsNone(o) THEN <<0>> ELSE <<1>> \o U64Bytes(o[1])

SerOptData(o) ==
    IF IsNone(o) THEN <<0>>
    ELSE <<1>> \o I64Bytes(o[1][1]) \o U64Bytes(o[1][2])

serialize_BTreeNode(node) ==
    U64Bytes(Len(node.children))
    \o Concat([i \in 1..Len(node.children) |-> SerOptU64(node.children[i])])
    \o U64Bytes(node.parent)
    \o U64Bytes(Len(node.data))
    \o Concat([i \in 1..Len(node.data) |-> SerOptData(node.data[i])])

serialized_size_BTreeNode(node) == Len(serialize_BTreeNode(node))

\* n Option<u64> from b, starting at index p
RECURSIVE DeOptU64Seq(_, _, _, _)
DeOptU64Seq(b, p, n, acc) ==
    IF n = 0 THEN [ok |-> TRUE, val |-> acc, pos |-> p]
    ELSE IF p > Len(b) THEN DeFail
    ELSE IF b[p] = 0 THEN DeOptU64Seq(b, p + 1, n - 1, Append(acc, None))
    ELSE IF b[p] = 1 /\ p + 8 <= Len(b)
         THEN DeOptU64Seq(b, p + 9, n - 1, Append(acc, Some(U64Val(b, p + 1))))
    ELSE DeFail

\* n Option<(i64, u64)> from b, starting at index p
RECURSIVE DeOptDataSeq(_, _, _, _)
DeOptDataSeq(b, p, n, acc) ==
    IF n = 0 THEN [ok |-> TRUE, val |-> acc, pos |-> p]
    ELSE IF p > Len(b) THEN DeFail
    ELSE IF b[p] = 0 THEN DeOptDataSeq(b, p + 1, n - 1, Append(acc, None))
    ELSE IF b[p] = 1 /\ p + 16 <= Len(b)
         THEN DeOptDataSeq(b, p + 17, n - 1,
                  Append(acc, Some(<<I64Val(b, p + 1), U64Val(b, p + 9)>>)))
    ELSE DeFail

\* deserialize::<BTreeNode>(&bytes): trailing bytes are not an error
deserialize_BTreeNode(b) ==
    IF Len(b) < 8 THEN DeFail
    ELSE LET c == DeOptU64Seq(b, 9, U64Val(b, 1), <<>>) IN
         IF ~c.ok \/ c.pos + 15 > Len(b) THEN DeFail
         ELSE LET d == DeOptDataSeq(b, c.pos + 16, U64Val(b, c.pos + 8), <<>>) IN
              IF ~d.ok THEN DeFail
              ELSE [ok  |-> TRUE,
                    val |-> [children |-> c.val,
                             parent   |-> U64Val(b, c.pos),
                             data     |-> d.val],
                    pos |-> d.pos]

\* BTreeHeader(u64, usize): node length, then k
serialize_BTreeHeader(node_length, k) == U64Bytes(node_length) \o U64Bytes(k)

serialized_size_BTreeHeader == Len(serialize_BTreeHeader(0, 0))

\* store_node: the whole encoding is written at offset, whatever its length
store_node(node, b, node_length, offset) ==
    WriteAt(b, offset, serialize_BTreeNode(node))

\* load_node: node_length bytes are read at offset and decoded; unwrap()
\* turns a decoding failure into a panic
load_node(b, node_length, offset) ==
    LET r == ReadExact(b, offset, node_length) IN
    IF ~r.ok THEN [kind |-> "Err_IO", node |-> <<>>]
    ELSE LET d == deserialize_BTreeNode(r.bytes) IN
         IF d.ok THEN [kind |-> "Ok", node |-> Some(d.val)]
         ELSE [kind |-> "Panic", node |-> <<>>]

-----------------------------------------------------------------------------
(* src/btree1.rs: BTree.  A handle is [root, node_length, k]; the file it  *)
(* holds is the one path of the model.                                     *)

BTree_new(f, k) ==
    IF IsSome(f)
    THEN [file |-> f, tree |-> None, res |-> "Err_AlreadyExists"]
    ELSE LET root_node   == BTreeNode_new(k, 0)
             node_length == serialized_size_BTreeNode(root_node)
             header      == serialize_BTreeHeader(node_length, k)
             written     == WriteAt(<<>>, 0, header)
         IN  [file |-> Some(store_node(root_node, written, node_length,
                                       serialized_size_BTreeHeader)),
              tree |-> Some([root        |-> BTreeNode_new(k, 0),
                             node_length |-> serialized_size_BTreeNode(
                                                 BTreeNode_new(k, 0)),
                             k           |-> k]),
              res  |-> "Ok"]

BTree_open(f) ==
    IF IsNone(f) THEN [tree |-> None, res |-> "Err_NotFound"]
    ELSE IF Len(f[1]) < serialized_size_BTreeHeader
         THEN [tree |-> None, res |-> "Panic"]
    ELSE LET node_length == U64Val(f[1], 1)
             k           == U64Val(f[1], 9)
             loaded      == load_node(f[1], node_length,
                                      serialized_size_BTreeHeader)
         IN  IF loaded.kind = "Ok"
             THEN [tree |-> Some([root        |-> loaded.node[1],
                                  node_length |-> node_length,
                                  k           |-> k]),
                   res  |-> "Ok"]
             ELSE [tree |-> None, res |-> loaded.kind]

\* insert consumes the handle and stores nothing
BTree_insert(t, f, key, data) == [file |-> f, res |-> "Err_NotFound"]

\* the loop of search: the entry equal to key, or a break at the first
\* None or larger key
RECURSIVE search_loop(_, _, _)
search_loop(data, i, key) ==
    IF i > Len(data) THEN None
    ELSE IF IsNone(data[i]) THEN None
    ELSE IF key = data[i][1][1] THEN data[i]
    ELSE IF key < data[i][1][1] THEN None
    ELSE search_loop(data, i + 1, key)

\* search: Ok(entry), Ok(None) on a leaf; the descent into a child is not
\* written, the else branch has no value ("Unit")
BTree_search(node, key) ==
    LET hit == search_loop(node.data, 1, key) IN
    IF IsSome(hit) THEN [kind |-> "Ok", data |-> hit]
    ELSE IF is_leaf(node) = "true" THEN [kind |-> "Ok", data |-> None]
    ELSE IF is_leaf(node) = "Panic" THEN [kind |-> "Panic", data |-> None]
    ELSE [kind |-> "Unit", data |-> None]

BTree_lookup(t, key) == BTree_search(t.root, key)

\* delete consumes the handle and touches nothing
BTree_delete(t, f, key) == [file |-> f, res |-> "Err_NotFound"]

-----------------------------------------------------------------------------
(* The life of one tree file under src/btree1.rs *)

Result(op, key, res, val, before, prev) ==
    [op |-> op, key |-> key, res |-> res, val |-> val,
     before |-> before, prev |-> prev]

Init ==
    /\ file = None
    /\ tree = None
    /\ refmap = [key \in Keys |-> None]
    /\ made = None
    /\ stored = <<>>
    /\ result = Result("init", 0, "Ok", None, None, None)

New(k) ==
    LET r == BTree_new(file, k) IN
    /\ tree = None
    /\ file' = r.file
    /\ tree' = r.tree
    /\ made' = IF r.res = "Ok" THEN Some(<<k, r.tree[1].node_length>>) ELSE made
    /\ result' = Result("new", 0, r.res, None, file, None)
    /\ UNCHANGED <<refmap, stored>>

Open ==
    LET r == BTree_open(file) IN
    /\ tree = None
    /\ tree' = r.tree
    /\ result' = Result("open", 0, r.res, None, file, None)
    /\ UNCHANGED <<file, refmap, made, stored>>

\* the handle goes out of scope
Close ==
    /\ IsSome(tree)
    /\ tree' = None
    /\ result' = Result("close", 0, "Ok", None, file, None)
    /\ UNCHANGED <<file, refmap, made, stored>>

\* put(key, val) is insert(key, Some((key, val)))
Insert(key, val) ==
    /\ IsSome(tree)
    /\ LET r == BTree_insert(tree[1], file, key, Some(<<key, val>>)) IN
       /\ file' = r.file
       /\ result' = Result("insert", key, r.res, None, file, refmap[key])
    /\ tree' = None
    /\ refmap' = [refmap EXCEPT ![key] = Some(val)]
    /\ UNCHANGED <<made, stored>>

Lookup(key) ==
    /\ IsSome(tree)
    /\ LET r == BTree_lookup(tree[1], key) IN
       result' = Result("lookup", key, r.kind, r.data, file, refmap[key])
    /\ tree' = IF result'.res = "Ok" THEN tree ELSE None
    /\ UNCHANGED <<file, refmap, made, stored>>

Delete(key) ==
    /\ IsSome(tree)
    /\ LET r == BTree_delete(tree[1], file, key) IN
       /\ file' = r.file
       /\ result' = Result("delete", key, r.res, None, file, refmap[key])
    /\ tree' = None
    /\ refmap' = [refmap EXCEPT ![key] = None]
    /\ UNCHANGED <<made, stored>>

\* fs::remove_file, once no handle is live
RemoveFile ==
    /\ IsSome(file)
    /\ tree = None
    /\ file' = None
    /\ refmap' = [key \in Keys |-> None]
    /\ made' = None
    /\ result' = Result("remove_file", 0, "Ok", None, file, None)
    /\ UNCHANGED <<tree, stored>>

Next ==
    \/ \E k \in Degrees : New(k)
    \/ Open
    \/ Close
    \/ \E key \in Keys, val \in Vals : Insert(key, val)
    \/ \E key \in Keys : Lookup(key)
    \/ \E key \in Keys : Delete(key)
    \/ RemoveFile

Spec == Init /\ [][Next]_vars

-----------------------------------------------------------------------------
(* The tree a file holds, read the way open and load_node read it *)

HeaderNodeLength(b) == U64Val(b, 1)
HeaderK(b) == U64Val(b, 9)

EntryKeys(node) == {node.data[i][1][1] : i \in {j \in 1..Len(node.data) : IsSome(node.data[j])}}
KeyCount(node) == Cardinality({i \in 1..Len(node.data) : IsSome(node.data[i])})
ChildOffsets(node) ==
    {node.children[i][1] : i \in {j \in 1..Len(node.children) : IsSome(node.children[j])}}

\* the nodes reachable from offset, each with its depth; a slot that does
\* not load (or lies deeper than WalkFuel) is reported with ok = FALSE
RECURSIVE TreeNodes(_, _, _, _, _)
TreeNodes(b, node_length, offset, depth, fuel) ==
    LET l == load_node(b, node_length, offset) IN
    IF l.kind # "Ok" \/ fuel = 0
    THEN {[offset |-> offset, depth |-> depth, ok |-> FALSE, node |-> None]}
    ELSE {[offset |-> offset, depth |-> depth, ok |-> TRUE, node |-> l.node]}
         \cup UNION {TreeNodes(b, node_length, c, depth + 1, fuel - 1) :
                        c \in ChildOffsets(l.node[1])}

FileNodes(b) ==
    TreeNodes(b, HeaderNodeLength(b), serialized_size_BTreeHeader, 0, WalkFuel)

SubtreeKeys(b, offset) ==
    UNION {IF n.ok THEN EntryKeys(n.node[1]) ELSE {} :
             n \in TreeNodes(b, HeaderNodeLength(b), offset, 0, WalkFuel)}

FileKeys(f) ==
    IF IsNone(f) THEN {}
    ELSE UNION {IF n.ok THEN EntryKeys(n.node[1]) ELSE {} : n \in FileNodes(f[1])}

RefKeys == {key \in Keys : IsSome(refmap[key])}

\* a lookup result val (Option<(key, value)>) agrees with the reference r
Agrees(val, r) ==
    IF IsNone(r) THEN IsNone(val) ELSE IsSome(val) /\ val[1][2] = r[1]

-----------------------------------------------------------------------------
(* Claims *)

\* C1: search correctness - every lookup returns the value of the latest
\* put of its key that no delete followed, and None otherwise (the tree
\* behaves like the reference map).
C1_SearchCorrect ==
    result.op = "lookup" =>
        result.res = "Ok" /\ Agrees(result.val, refmap[result.key])

\* C4: persistence round trip - an open after create, puts, deletes and
\* close succeeds, recovers the degree and node length of the create, and
\* every key then looks up to its stored value (None when deleted or never
\* put).
C4_PersistenceRoundTrip ==
    (result.op = "open" /\ IsSome(made)) =>
        /\ result.res = "Ok"
        /\ IsSome(tree)
        /\ tree[1].k = made[1][1]
        /\ tree[1].node_length = made[1][2]
        /\ \A key \in Keys :
               /\ BTree_lookup(tree[1], key).kind = "Ok"
               /\ Agrees(BTree_lookup(tree[1], key).data, refmap[key])

\* C5: put returns the previous value of the key (None for a new key), and
\* the tree then holds exactly the keys put and not deleted: one more for
\* a new key, as many as before for an overwrite.
C5_PutReturnsPrevious ==
    result.op = "insert" =>
        /\ result.res = "Ok"
        /\ Agrees(result.val, result.prev)
        /\ Cardinality(FileKeys(file)) = Cardinality(RefKeys)

\* C6 as stated: a delete of a key that is not in the tree returns None and
\* leaves every byte of the file as it was.
C6_DeleteAbsentReturnsNone ==
    (result.op = "delete" /\ result.key \notin FileKeys(result.before)) =>
        /\ result.res = "Ok"
        /\ IsNone(result.val)
        /\ file = result.before

\* C7: a delete of a key that was put returns the value stored for it and
\* removes that key and no other: the tree then holds exactly the keys of
\* the reference map.
C7_DeleteReturnsValue ==
    (result.op = "delete" /\ IsSome(result.prev)) =>
        /\ result.res = "Ok"
        /\ IsSome(result.val)
        /\ result.val[1] = result.prev[1]
        /\ FileKeys(file) = RefKeys

-----------------------------------------------------------------------------
(* SpecNode: store_node and load_node of src/btree1.rs on the slots of a   *)
(* tree file.  Slot s lies at header size + s * node_length; a node has    *)
(* the first c child slots and the first d entry slots occupied.           *)

Slots == 0..MaxSlot

SlotOffset(s, node_length) == serialized_size_BTreeHeader + s * node_length

NodeWith(k, c, d) ==
    [children |-> [i \in 1..(2 * k) |->
                      IF i <= c THEN Some(serialized_size_BTreeHeader) ELSE None],
     parent   |-> 0,
     data     |-> [i \in 1..(2 * k + 1) |->
                      IF i <= d THEN Some(<<i, 1>>) ELSE None]]

\* empty, one slot occupied, every slot occupied
NodesOf(k) == {NodeWith(k, c, d) : c \in {0, 1, 2 * k}, d \in {0, 1, 2 * k + 1}}

\* the node last stored at slot s, by the log of stores
RECURSIVE LastStored(_, _)
LastStored(log, s) ==
    IF Len(log) = 0 THEN None
    ELSE IF log[Len(log)][1] = s THEN Some(log[Len(log)][2])
    ELSE LastStored(SubSeq(log, 1, Len(log) - 1), s)

InitNode ==
    \E k \in Degrees :
        LET r == BTree_new(None, k) IN
        /\ file = r.file
        /\ tree = r.tree
        /\ refmap = [key \in Keys |-> None]
        /\ made = Some(<<k, r.tree[1].node_length>>)
        /\ stored = <<<<0, BTreeNode_new(k, 0)>>>>
        /\ result = Result("new", 0, r.res, None, None, None)

StoreNode(s, node) ==
    /\ Len(stored) < MaxStores
    /\ file' = Some(store_node(node, file[1], tree[1].node_length,
                               SlotOffset(s, tree[1].node_length)))
    /\ stored' = Append(stored, <<s, node>>)
    /\ result' = Result("store_node", s, "Ok", Some(node), None, None)
    /\ UNCHANGED <<tree, refmap, made>>

LoadNode(s) ==
    /\ LET l == load_node(file[1], tree[1].node_length,
                          SlotOffset(s, tree[1].node_length)) IN
       result' = Result("load_node", s, l.kind, l.node, None, None)
    /\ UNCHANGED <<file, tree, refmap, made, stored>>

NextNode ==
    \/ \E s \in Slots : \E node \in NodesOf(tree[1].k) : StoreNode(s, node)
    \/ \E s \in Slots : LoadNode(s)

SpecNode == InitNode /\ [][NextNode]_vars

-----------------------------------------------------------------------------
(* src/btree.rs: Node<K, V> (here K = i64, V = u64), stored append-only    *)

Node_new == [num_children |-> 0, parent |-> 0, children |-> <<>>, data |-> <<>>]

serialize_Node(node) ==
    U64Bytes(node.num_children)
    \o U64Bytes(node.parent)
    \o U64Bytes(Len(node.children))
    \o Concat([i \in 1..Len(node.children) |-> U64Bytes(node.children[i])])
    \o U64Bytes(Len(node.data))
    \o Concat([i \in 1..Len(node.data) |->
                  I64Bytes(node.data[i][1]) \o U64Bytes(node.data[i][2])])

RECURSIVE DeU64Seq(_, _, _, _)
DeU64Seq(b, p, n, acc) ==
    IF n = 0 THEN [ok |-> TRUE, val |-> acc, pos |-> p]
    ELSE IF p + 7 > Len(b) THEN DeFail
    ELSE DeU64Seq(b, p + 8, n - 1, Append(acc, U64Val(b, p)))

RECURSIVE DePairSeq(_, _, _, _)
DePairSeq(b, p, n, acc) ==
    IF n = 0 THEN [ok |-> TRUE, val |-> acc, pos |-> p]
    ELSE IF p + 15 > Len(b) THEN DeFail
    ELSE DePairSeq(b, p + 16, n - 1,
                   Append(acc, <<I64Val(b, p), U64Val(b, p + 8)>>))

\* deserialize_from a reader positioned at index p of b
deserialize_Node(b, p) ==
    IF p + 23 > Len(b) THEN DeFail
    ELSE LET c == DeU64Seq(b, p + 24, U64Val(b, p + 16), <<>>) IN
         IF ~c.ok \/ c.pos + 7 > Len(b) THEN DeFail
         ELSE LET d == DePairSeq(b, c.pos + 8, U64Val(b, c.pos), <<>>) IN
              IF ~d.ok THEN DeFail
              ELSE [ok  |-> TRUE,
                    val |-> [num_children |-> U64Val(b, p),
                             parent       |-> U64Val(b, p + 8),
                             children     |-> c.val,
                             data         |-> d.val],
                    pos |-> d.pos]

\* Node::store: seek(End(0)), serialize_into, the offset of the write
Node_store(node, b) == [bytes |-> b \o serialize_Node(node), offset |-> Len(b)]

\* Node::load: seek(Start(at)), deserialize_from
Node_load(b, at) ==
    LET d == deserialize_Node(b, at + 1) IN
    IF d.ok THEN [kind |-> "Ok", node |-> Some(d.val)]
    ELSE [kind |-> "Err_Other", node |-> None]

\* BTree::new of src/btree.rs: the file is opened without create, the root
\* is appended and the footer (the root's offset) after it
BTree2_new(f, degree) ==
    IF IsNone(f) THEN [file |-> f, tree |-> None, res |-> "Err_NotFound"]
    ELSE LET st == Node_store(Node_new, f[1]) IN
         [file |-> Some(st.bytes \o U64Bytes(st.offset)),
          tree |-> Some([root_offset |-> st.offset, root |-> Node_new,
                         degree |-> degree]),
          res  |-> "Ok"]

-----------------------------------------------------------------------------
(* SpecB: the life of one file under src/btree.rs.  BTree::new never       *)
(* creates the file, so the host does (Touch).                             *)

BNodes ==
    {[num_children |-> c, parent |-> 0,
      children |-> [i \in 1..c |-> 0],
      data |-> [i \in 1..d |-> <<i, 1>>]] : c \in 0..1, d \in 0..MaxKey}

InitB ==
    /\ file = None
    /\ tree = None
    /\ refmap = [key \in Keys |-> None]
    /\ made = None
    /\ stored = <<>>
    /\ result = Result("init", 0, "Ok", None, None, None)

Touch ==
    /\ IsNone(file)
    /\ file' = Some(<<>>)
    /\ result' = Result("touch", 0, "Ok", None, file, None)
    /\ UNCHANGED <<tree, refmap, made, stored>>

New2(degree) ==
    LET r == BTree2_new(file, degree) IN
    /\ tree = None
    /\ Len(stored) < MaxStores
    /\ file' = r.file
    /\ tree' = r.tree
    /\ stored' = IF r.res = "Ok"
                 THEN Append(stored, <<r.tree[1].root_offset, Node_new>>)
                 ELSE stored
    /\ result' = Result("new", 0, r.res, None, file, None)
    /\ UNCHANGED <<refmap, made>>

Close2 ==
    /\ IsSome(tree)
    /\ tree' = None
    /\ result' = Result("close", 0, "Ok", None, file, None)
    /\ UNCHANGED <<file, refmap, made, stored>>

StoreB(node) ==
    /\ IsSome(tree)
    /\ Len(stored) < MaxStores
    /\ LET st == Node_store(node, file[1]) IN
       /\ file' = Some(st.bytes)
       /\ stored' = Append(stored, <<st.offset, node>>)
       /\ result' = Result("store", st.offset, "Ok", Some(node), file, None)
    /\ UNCHANGED <<tree, refmap, made>>

LoadB(i) ==
    /\ IsSome(tree)
    /\ LET l == Node_load(file[1], stored[i][1]) IN
       result' = Result("load", i, l.kind, l.node, file, None)
    /\ UNCHANGED <<file, tree, refmap, made, stored>>

RemoveFile2 ==
    /\ IsSome(file)
    /\ tree = None
    /\ file' = None
    /\ stored' = <<>>
    /\ result' = Result("remove_file", 0, "Ok", None, file, None)
    /\ UNCHANGED <<tree, refmap, made>>

NextB ==
    \/ Touch
    \/ \E degree \in Degrees : New2(degree)
    \/ Close2
    \/ \E node \in BNodes : StoreB(node)
    \/ \E i \in 1..Len(stored) : LoadB(i)
    \/ RemoveFile2

SpecB == InitB /\ [][NextB]_vars

\* a file holds a tree of src/btree.rs when its footer names a root that loads
HoldsTree2(f) ==
    /\ IsSome(f)
    /\ Len(f[1]) >= 8
    /\ Node_load(f[1], U64Val(f[1], Len(f[1]) - 7)).kind = "Ok"

\* C8: create on a target that holds a tree fails with AlreadyExists and
\* leaves the file as it was; create on a target that does not exist
\* succeeds and yields an empty tree.
C8_CreateExclusive ==
    result.op = "new" =>
        /\ IsNone(result.before) =>
               /\ result.res = "Ok"
               /\ IsSome(tree)
               /\ tree[1].root.data = <<>>
        /\ HoldsTree2(result.before) =>
               /\ result.res = "Err_AlreadyExists"
               /\ file = result.before

\* C9: the serialized length of every node stored, whatever slots it
\* occupies, is the node length of the header.
C9_FixedRecordSize ==
    result.op = "store_node" =>
        serialized_size_BTreeNode(result.val[1]) = HeaderNodeLength(file[1])

\* C10: decoding the encoding of a node gives the node back, and a load at
\* a slot yields the node last stored there, whatever was stored at other
\* slots since.
C10_CodecRoundTrip ==
    /\ result.op = "store_node" =>
           /\ deserialize_BTreeNode(serialize_BTreeNode(result.val[1])).ok
           /\ deserialize_BTreeNode(serialize_BTreeNode(result.val[1])).val
                  = result.val[1]
    /\ (result.op = "load_node" /\ IsSome(LastStored(stored, result.key))) =>
           /\ result.res = "Ok"
           /\ result.val = LastStored(stored, result.key)

-----------------------------------------------------------------------------
(* src/btree.rs: the Storage trait and its implementation for File *)

\* the trait's default append
Storage_append_default(b, data) ==
    [res |-> "Err_Other", bytes |-> b, offset |-> 0]

\* impl Storage for File: seek(End(0)), write_all, the offset of the seek
File_append(b, data) ==
    [res |-> "Ok", bytes |-> b \o data, offset |-> Len(b)]

\* a put that seeks to the end instead of to offset
File_put_at_end(b, data, offset) ==
    [res |-> "Ok", bytes |-> b \o data]

\* impl Storage for File: seek(Start(offset)), write_all
File_put(b, data, offset) ==
    [res |-> "Ok", bytes |-> WriteAt(b, offset, data)]

\* impl Storage for File: seek(Start(offset)), read_exact
File_get(b, offset, n) ==
    LET r == ReadExact(b, offset, n) IN
    IF r.ok THEN [res |-> "Ok", bytes |-> Some(r.bytes)]
    ELSE [res |-> "Err_UnexpectedEof", bytes |-> None]

\* append of a medium: File overrides it, a medium that implements only
\* the required put and get inherits the default
Storage_append(kind, b, data) ==
    IF kind = "File" THEN File_append(b, data)
    ELSE Storage_append_default(b, data)

-----------------------------------------------------------------------------
(* SpecS: one storage medium under put, append and get.  tree names the    *)
(* kind of medium, stored is the log of the writes that succeeded.         *)

Media == {"File", "PutGetOnly"}
Datas == {<<>>, <<7>>, <<8, 9>>}
Offsets == 0..MaxOff
ReadLens == 0..2

InitS ==
    \E kind \in Media :
        /\ file = Some(<<>>)
        /\ tree = Some(kind)
        /\ refmap = [key \in Keys |-> None]
        /\ made = None
        /\ stored = <<>>
        /\ result = Result("init", 0, "Ok", None, None, None)

Put(data, offset) ==
    /\ tree[1] = "File"
    /\ Len(stored) < MaxWrites
    /\ LET r == File_put(file[1], data, offset) IN
       /\ file' = Some(r.bytes)
       /\ result' = Result("put", offset, r.res, Some(data), file, None)
    /\ stored' = Append(stored, <<offset, data>>)
    /\ UNCHANGED <<tree, refmap, made>>

StorageAppend(data) ==
    /\ Len(stored) < MaxWrites
    /\ LET r == Storage_append(tree[1], file[1], data) IN
       /\ file' = Some(r.bytes)
       /\ result' = Result("append", r.offset, r.res, Some(data), file, None)
       /\ stored' = IF r.res = "Ok" THEN Append(stored, <<r.offset, data>>)
                    ELSE stored
    /\ UNCHANGED <<tree, refmap, made>>

Get(offset, n) ==
    /\ tree[1] = "File"
    /\ LET r == File_get(file[1], offset, n) IN
       result' = Result("get", offset, r.res, r.bytes, file, Some(n))
    /\ UNCHANGED <<file, tree, refmap, made, stored>>

NextS ==
    \/ \E data \in Datas, offset \in Offsets : Put(data, offset)
    \/ \E data \in Datas : StorageAppend(data)
    \/ \E offset \in Offsets, n \in ReadLens : Get(offset, n)

SpecS == InitS /\ [][NextS]_vars

\* reference: the byte at 0-based position pos after the writes of log -
\* the byte of the latest write that covers pos, 0 in a gap no write covered
RECURSIVE WrittenByte(_, _)
WrittenByte(log, pos) ==
    IF Len(log) = 0 THEN 0
    ELSE LET w == log[Len(log)] IN
         IF pos >= w[1] /\ pos < w[1] + Len(w[2]) THEN w[2][pos - w[1] + 1]
         ELSE WrittenByte(SubSeq(log, 1, Len(log) - 1), pos)

\* C11: an append to any storage medium succeeds, returns the length L the
\* medium had, leaves the first L bytes as they were and puts the data
\* after them; no medium has an append that always fails.
C11_AppendAtEnd ==
    result.op = "append" =>
        /\ result.res = "Ok"
        /\ result.key = Len(result.before[1])
        /\ file[1] = result.before[1] \o result.val[1]

\* C12 as stated: get succeeds exactly when offset + len is within the
\* medium and then returns the bytes last written; put writes its bytes
\* at offset, grows the medium as needed and changes no other byte.
C12_PutGet ==
    /\ result.op = "get" =>
           /\ result.res = "Ok"
                  <=> result.key + result.prev[1] <= Len(file[1])
           /\ result.res # "Ok" => result.res = "Err_UnexpectedEof"
           /\ result.res = "Ok" =>
                  /\ Len(result.val[1]) = result.prev[1]
                  /\ \A i \in 1..result.prev[1] :
                         result.val[1][i] = WrittenByte(stored, result.key + i - 1)
    /\ result.op = "put" =>
           LET old == result.before[1]
               data == result.val[1]
           IN  /\ result.res = "Ok"
               /\ Len(file[1]) = IF Len(data) = 0 THEN Len(old)
                                  ELSE Max(Len(old), result.key + Len(data))
               /\ \A i \in 1..Len(data) : file[1][result.key + i] = data[i]
               /\ \A i \in 1..Len(old) :
                      (i <= result.key \/ i > result.key + Len(data))
                          => file[1][i] = old[i]

\* C12 amended: as C12, but a get of zero bytes succeeds at any offset,
\* also one past the end of the medium.
C12_PutGetAmended ==
    /\ result.op = "get" =>
           /\ result.res = "Ok"
                  <=> (result.prev[1] = 0
                         \/ result.key + result.prev[1] <= Len(file[1]))
           /\ result.res # "Ok" => result.res = "Err_UnexpectedEof"
           /\ result.res = "Ok" =>
                  /\ Len(result.val[1]) = result.prev[1]
                  /\ \A i \in 1..result.prev[1] :
                         result.val[1][i] = WrittenByte(stored, result.key + i - 1)
    /\ result.op = "put" =>
           LET old == result.before[1]
               data == result.val[1]
           IN  /\ result.res = "Ok"
               /\ Len(file[1]) = IF Len(data) = 0 THEN Len(old)
                                  ELSE Max(Len(old), result.key + Len(data))
               /\ \A i \in 1..Len(data) : file[1][result.key + i] = data[i]
               /\ \A i \in 1..Len(old) :
                      (i <= result.key \/ i > result.key + Len(data))
                          => file[1][i] = old[i]

\* C12 witness: after two overlapping writes, one of them past the end, a
\* get has read bytes of both
C12_Witness ==
    /\ result.op = "get"
    /\ result.res = "Ok"
    /\ result.prev[1] = 2
    /\ Len(stored) = 2
    /\ stored[1][1] + Len(stored[1][2]) > stored[2][1]
    /\ stored[2][1] > 0
    /\ result.val[1][1] = 8
    /\ result.val[1][2] = 7

-----------------------------------------------------------------------------
(* SpecScenario: the inserts 10, 20, 5, 6, 12, 30, 7, 17, in that order,   *)
(* into a new tree of degree 2 under src/btree1.rs.  insert consumes the   *)
(* handle, so the tree is opened again before the next one.  stored is     *)
(* the log of the keys inserted so far.                                    *)

Scenario == <<10, 20, 5, 6, 12, 30, 7, 17>>

InitScenario ==
    LET r == BTree_new(None, 2) IN
    /\ file = r.file
    /\ tree = r.tree
    /\ refmap = [key \in Keys |-> None]
    /\ made = Some(<<2, r.tree[1].node_length>>)
    /\ stored = <<>>
    /\ result = Result("new", 0, r.res, None, None, None)

ScenarioInsert(val) ==
    /\ IsSome(tree)
    /\ Len(stored) < Len(Scenario)
    /\ LET key == Scenario[Len(stored) + 1]
           r   == BTree_insert(tree[1], file, key, Some(<<key, val>>))
       IN  /\ file' = r.file
           /\ result' = Result("insert", key, r.res, Some(<<key, val>>), None, None)
           /\ stored' = Append(stored, key)
    /\ tree' = None
    /\ UNCHANGED <<refmap, made>>

ScenarioLookup(key) ==
    /\ IsSome(tree)
    /\ LET r == BTree_lookup(tree[1], key) IN
       result' = Result("lookup", key, r.kind, r.data, None, None)
    /\ UNCHANGED <<file, tree, refmap, made, stored>>

NextScenario ==
    \/ \E val \in Vals : ScenarioInsert(val)
    \/ \E i \in 1..Len(Scenario) : ScenarioLookup(Scenario[i])
    \/ Open
    \/ Close

SpecScenario == InitScenario /\ [][NextScenario]_vars

\* the number of levels of the tree a file holds
Height(b) ==
    LET depths == {n.depth : n \in FileNodes(b)} IN
    1 + CHOOSE d \in depths : \A e \in depths : e <= d

RootNode(b) ==
    load_node(b, HeaderNodeLength(b), serialized_size_BTreeHeader).node[1]

\* C13: in the scenario the root is not split by the first four inserts
\* and is split by the end of the sixth; the tree then has height 2, the
\* root one entry and two children, which hold the keys below and above
\* that entry.
C13_RootSplitBySixthInsert ==
    result.op = "insert" =>
        /\ Len(stored) <= 4 => Height(file[1]) = 1
        /\ Len(stored) >= 6 => Height(file[1]) >= 2
        /\ Len(stored) = 6 =>
               LET root == RootNode(file[1]) IN
               /\ Height(file[1]) = 2
               /\ KeyCount(root) = 1
               /\ Cardinality(ChildOffsets(root)) = 2
               /\ \A key \in SubtreeKeys(file[1], root.children[1][1]) :
                      key < root.data[1][1][1]
               /\ \A key \in SubtreeKeys(file[1], root.children[2][1]) :
                      key > root.data[1][1][1]
               /\ FileKeys(file) = {stored[i] : i \in 1..6}

====
